---------------------------- MODULE Spec2Model ----------------------------
(***************************************************************************)
(* The derived-state layer of timemap: the memoized selectors of           *)
(* src/selectors/index.js over the application state tree.                 *)
(*                                                                         *)
(* JavaScript values are modelled as follows.  A property key is a string. *)
(* An event is a record; a field the event does not carry is a field      *)
(* missing from the record's DOMAIN.  A plain object used as a dictionary  *)
(* (and the array selectEvents fills by id) is a record                    *)
(*   [keys |-> its own keys in insertion order, val |-> key -> value],     *)
(* and is enumerated in the order the language defines: keys that are      *)
(* array indices first, in ascending numeric order, then the other keys in *)
(* insertion order.  A timestamp is a string; its instant is ParseDate.    *)
(* An id given as a number is the key its decimal string is.  No key is    *)
(* the name of a property of Object.prototype.                             *)
(***************************************************************************)
EXTENDS Integers, Sequences, FiniteSets, TLC

VARIABLES
    events,            \* state.domain.events
    categories,        \* state.domain.categories
    narrativesMeta,    \* state.domain.narratives
    activeTags,        \* state.app.filters.tags
    activeCategories,  \* state.app.filters.categories
    timeRange,         \* state.app.timeline.range
    features,          \* process.env.features
    out,               \* selector -> the value its last call returned
    ret,               \* selector -> "idle" | "returned" | "threw"
    tree,              \* state-tree field -> the reference it holds
    cache,             \* selector -> createSelector's memo (lastArgs, lastResult)
    heap,              \* the next fresh reference, and the updates made so far
    tick               \* what the last render did (recomputations, returned references)

vars == <<events, categories, narrativesMeta, activeTags, activeCategories,
          timeRange, features, out, ret, tree, cache, heap, tick>>

(***************************************************************************)
(* Bounds of the model.                                                    *)
(***************************************************************************)
MaxEvents == 2
MaxGrouped == 3
MaxSteps == 3
MaxUpdates == 2

(***************************************************************************)
(* JavaScript sequences and objects.                                       *)
(***************************************************************************)
Range(s) == {s[i] : i \in DOMAIN s}

Includes(arr, x) == \E i \in DOMAIN arr : arr[i] = x

\* The array index a canonical numeric string denotes.
ArrayIndex == [k \in {"0", "1", "2", "3"} |->
                 CASE k = "0" -> 0 [] k = "1" -> 1 [] k = "2" -> 2 [] k = "3" -> 3]

IsArrayIndex(k) == k \in DOMAIN ArrayIndex

\* { ...event, field: value }
With(event, field, value) == (field :> value) @@ event

EmptyObject == [keys |-> <<>>, val |-> <<>>]

HasOwn(o, k) == Includes(o.keys, k)

\* o[k] = v
Put(o, k, v) ==
    [keys |-> IF HasOwn(o, k) THEN o.keys ELSE Append(o.keys, k),
     val  |-> (k :> v) @@ o.val]

RECURSIVE Ascending(_)
Ascending(S) ==
    IF S = {} THEN <<>>
    ELSE LET m == CHOOSE k \in S : \A j \in S : ArrayIndex[k] <= ArrayIndex[j]
         IN  <<m>> \o Ascending(S \ {m})

\* Array.prototype.forEach on an array: the index properties, ascending;
\* holes and non-index properties are not visited.
IndexKeys(o) == Ascending({k \in Range(o.keys) : IsArrayIndex(k)})

\* Object.keys: array-index keys ascending, then the rest in insertion order.
OwnKeys(o) ==
    IndexKeys(o) \o SelectSeq(o.keys, LAMBDA k : ~IsArrayIndex(k))

\* Object.values
OwnValues(o) == [i \in DOMAIN OwnKeys(o) |-> o.val[OwnKeys(o)[i]]]

\* arr.forEach / arr.map view of an array filled by key
ArrayElements(o) == [i \in DOMAIN IndexKeys(o) |-> o.val[IndexKeys(o)[i]]]

(***************************************************************************)
(* Helpers imported from ../common/utilities, ./helpers, ../common/global. *)
(***************************************************************************)
ParseDate == [t \in {"2020-01-01", "2020-02-01", "2020-03-01"} |->
                CASE t = "2020-01-01" -> 1
                  [] t = "2020-02-01" -> 2
                  [] t = "2020-03-01" -> 3]

Timestamps == DOMAIN ParseDate

isTimeRangedIn(event, range) ==
    /\ range[1] <= ParseDate[event.timestamp]
    /\ ParseDate[event.timestamp] <= range[2]

\* a <= b on two timestamps by the instants they denote
DateLeq(a, b) == ParseDate[a] <= ParseDate[b]

dateMin(a, b) == IF DateLeq(a, b) THEN a ELSE b

dateMax(a, b) == IF DateLeq(a, b) THEN b ELSE a

\* negative, zero or positive as a is before, at or after b
compareTimestamp(a, b) == ParseDate[a.timestamp] - ParseDate[b.timestamp]

\* insetSourceFrom(sources)(event): the event with the sources it names inlined;
\* a source id the mapping does not hold is left out
insetSourceFrom(sources, event) ==
    With(event, "sources",
         IF "sources" \in DOMAIN event
         THEN LET known == SelectSeq(event.sources, LAMBDA id : HasOwn(sources, id))
              IN  [i \in DOMAIN known |-> sources.val[known[i]]]
         ELSE <<>>)

\* sizes.eventDotR
eventDotR == 8

(***************************************************************************)
(* selectEvents                                                            *)
(***************************************************************************)
isMatchingTag(event, tags) ==
    \/ /\ "tags" \in DOMAIN event
       /\ \E i \in DOMAIN event.tags : Includes(tags, event.tags[i])
    \/ Len(tags) = 0

isActiveTag(event, tags) == isMatchingTag(event, tags) \/ Len(tags) = 0

isActiveCategoryNoEmptyCase(event, cats) == Includes(cats, event.category)

isActiveCategory(event, cats) ==
    Includes(cats, event.category) \/ Len(cats) = 0

isActiveTime(event, range) == isTimeRangedIn(event, range)

RECURSIVE selectEventsReduce(_, _, _, _, _)
selectEventsReduce(acc, evts, tags, cats, range) ==
    IF evts = <<>> THEN acc
    ELSE LET event == Head(evts)
             next  == IF /\ isActiveTime(event, range)
                         /\ isActiveTag(event, tags)
                         /\ isActiveCategory(event, cats)
                      THEN Put(acc, event.id, event)
                      ELSE acc
         IN  selectEventsReduce(next, Tail(evts), tags, cats, range)

selectEvents(evts, tags, cats, range) ==
    selectEventsReduce(EmptyObject, evts, tags, cats, range)

(***************************************************************************)
(* selectLocations                                                         *)
(***************************************************************************)
RECURSIVE selectLocationsEach(_, _)
selectLocationsEach(activeLocations, evs) ==
    IF evs = <<>> THEN activeLocations
    ELSE LET event    == Head(evs)
             location == event.location
             group    == IF HasOwn(activeLocations, location)
                         THEN [activeLocations.val[location] EXCEPT
                                  !.events = Append(@, event)]
                         ELSE [label     |-> location,
                               events    |-> <<event>>,
                               latitude  |-> event.latitude,
                               longitude |-> event.longitude]
         IN  selectLocationsEach(Put(activeLocations, location, group), Tail(evs))

selectLocations(filtered) ==
    OwnValues(selectLocationsEach(EmptyObject, ArrayElements(filtered)))

(***************************************************************************)
(* selectDatetimes                                                         *)
(***************************************************************************)
\* the value null; no tag is named so
Null == "null"

\* event.tags.length on an event with no tags field
datetimesThrows(filtered, byTag) ==
    byTag /\ \E i \in DOMAIN ArrayElements(filtered) :
                 "tags" \notin DOMAIN ArrayElements(filtered)[i]

\* event = { ...event, project }
annotate(event, byTag) ==
    IF byTag
    THEN With(event, "project", IF Len(event.tags) >= 1 THEN event.tags[1] ELSE Null)
    ELSE event

projectOf(ev) == IF "project" \in DOMAIN ev THEN ev.project ELSE "undefined"

RECURSIVE collectProjects(_, _, _)
collectProjects(projects, evs, byTag) ==
    IF evs = <<>> THEN projects
    ELSE LET event   == annotate(Head(evs), byTag)
             project == projectOf(event)
             next    == IF byTag /\ project # Null
                        THEN IF HasOwn(projects, project)
                             THEN Put(projects, project,
                                      [start |-> dateMin(projects.val[project].start,
                                                         event.timestamp),
                                       end   |-> dateMax(projects.val[project].end,
                                                         event.timestamp)])
                             ELSE Put(projects, project,
                                      [start |-> event.timestamp,
                                       end   |-> event.timestamp])
                        ELSE projects
         IN  collectProjects(next, Tail(evs), byTag)

RECURSIVE collectDatetimes(_, _, _)
collectDatetimes(datetimes, evs, byTag) ==
    IF evs = <<>> THEN datetimes
    ELSE LET event     == annotate(Head(evs), byTag)
             timestamp == event.timestamp
             group     == IF HasOwn(datetimes, timestamp)
                          THEN [datetimes.val[timestamp] EXCEPT
                                   !.events = Append(@, event)]
                          ELSE [timestamp |-> event.timestamp,
                                events    |-> <<event>>]
         IN  collectDatetimes(Put(datetimes, timestamp, group), Tail(evs), byTag)

\* a <= b on two strings: the timestamps of the model are ISO dates of one
\* length, which compare as strings the way their instants do
StringLeq(a, b) == ParseDate[a] <= ParseDate[b]

\* dt >= projects[pj].start && dt <= projects[pj].end
checkActive(projects, pj, dt) ==
    StringLeq(projects.val[pj].start, dt) /\ StringLeq(dt, projects.val[pj].end)

projKeys(projects) == OwnKeys(projects)

activeProjects(projects, dt) ==
    SelectSeq(projKeys(projects), LAMBDA k : checkActive(projects, k, dt))

\* Array.prototype.indexOf, zero-based, -1 when absent
IndexOf(arr, x) ==
    IF Includes(arr, x)
    THEN (CHOOSE i \in DOMAIN arr : arr[i] = x /\ \A j \in 1..(i - 1) : arr[j] # x) - 1
    ELSE -1

laneWidth == 2 * eventDotR + 5

withOffsets(group, projects) ==
    [group EXCEPT !.events =
        [i \in DOMAIN @ |->
            With(@[i], "projectOffset",
                 IndexOf(activeProjects(projects, group.timestamp), projectOf(@[i]))
                    * laneWidth)]]

selectDatetimes(filtered, byTag) ==
    LET evs       == ArrayElements(filtered)
        projects  == collectProjects(EmptyObject, evs, byTag)
        datetimes == collectDatetimes(EmptyObject, evs, byTag)
        laned     == [keys |-> datetimes.keys,
                      val  |-> [k \in DOMAIN datetimes.val |->
                                   withOffsets(datetimes.val[k], projects)]]
    IN  OwnValues(laned)

(***************************************************************************)
(* selectNarratives                                                        *)
(***************************************************************************)
\* state.domain.sources
DomainSources ==
    Put(EmptyObject, "s1", [id |-> "s1", title |-> "Source 1"])

getSources(feat) == IF feat.USE_SOURCES THEN DomainSources ELSE EmptyObject

\* evt.narratives.length on an event with no narratives field
narrativesThrows(evts) ==
    \E i \in DOMAIN evts : "narratives" \notin DOMAIN evts[i]

narrativeSkeleton(id) == [id |-> id, steps |-> <<>>]

\* evt.narratives.forEach(...) for one event
RECURSIVE addToNarratives(_, _, _, _)
addToNarratives(narratives, evt, refs, sources) ==
    IF refs = <<>> THEN narratives
    ELSE LET narrative == Head(refs)
             entry     == IF HasOwn(narratives, narrative)
                          THEN narratives.val[narrative]
                          ELSE narrativeSkeleton(narrative)
             pushed    == [entry EXCEPT
                             !.steps = Append(@, insetSourceFrom(sources, evt))]
         IN  addToNarratives(Put(narratives, narrative, pushed), evt,
                             Tail(refs), sources)

\* events.forEach(...)
RECURSIVE populateNarratives(_, _, _)
populateNarratives(narratives, evts, sources) ==
    IF evts = <<>> THEN narratives
    ELSE populateNarratives(
             addToNarratives(narratives, Head(evts), Head(evts).narratives, sources),
             Tail(evts), sources)

\* Array.prototype.sort: stable, by the comparator
RECURSIVE InsertSorted(_, _)
InsertSorted(sorted, x) ==
    IF sorted = <<>> THEN <<x>>
    ELSE IF compareTimestamp(sorted[Len(sorted)], x) <= 0
         THEN Append(sorted, x)
         ELSE Append(InsertSorted(SubSeq(sorted, 1, Len(sorted) - 1), x),
                     sorted[Len(sorted)])

RECURSIVE SortSteps(_, _)
SortSteps(steps, n) ==
    IF n = 0 THEN <<>> ELSE InsertSorted(SortSteps(steps, n - 1), steps[n])

sortStepsSkipped(steps) == steps

sortSteps(steps) == SortSteps(steps, Len(steps))

metaFor(meta, key) ==
    meta[CHOOSE i \in DOMAIN meta :
            meta[i].id = key /\ \A j \in 1..(i - 1) : meta[j].id # key]

\* { ...narrativesMeta.find(n => n.id === key), ...narratives[key] }
mergeMeta(meta, key, narrative) ==
    IF \E i \in DOMAIN meta : meta[i].id = key
    THEN narrative @@ metaFor(meta, key)
    ELSE narrative

\* Object.keys(narratives).forEach(...)
sortAndMerge(narratives, meta) ==
    [keys |-> narratives.keys,
     val  |-> [key \in DOMAIN narratives.val |->
                 mergeMeta(meta, key,
                           [narratives.val[key] EXCEPT !.steps = sortSteps(@)])]]

inDiscoveryOrder(narratives, meta) == OwnValues(narratives)

\* narrativesMeta.map(n => narratives[n.id]).filter(d => d)
inMetaOrder(narratives, meta) ==
    LET known == SelectSeq(meta, LAMBDA n : HasOwn(narratives, n.id))
    IN  [i \in DOMAIN known |-> narratives.val[known[i].id]]

selectNarratives(evts, meta, sources) ==
    inMetaOrder(sortAndMerge(populateNarratives(EmptyObject, evts, sources), meta),
                meta)

(***************************************************************************)
(* selectCategoriesWithTimeline                                            *)
(***************************************************************************)
\* !!event[field]
Truthy(event, field) == field \in DOMAIN event /\ event[field] # ""

isLocated(event) == Truthy(event, "longitude") /\ Truthy(event, "latitude")

\* shuffle(events): the events in some order
Shuffles(evts) ==
    {[i \in DOMAIN evts |-> evts[order[i]]] :
        order \in {f \in [DOMAIN evts -> DOMAIN evts] :
                      \A i, j \in DOMAIN evts : f[i] = f[j] => i = j}}

\* for (let event of shuffle(events)) { ... }
RECURSIVE scanLocated(_, _, _)
scanLocated(hasLocated, evs, nCategories) ==
    IF evs = <<>> \/ Len(hasLocated.keys) = nCategories THEN hasLocated
    ELSE LET event == Head(evs)
             cat   == event.category
             next  == IF ~HasOwn(hasLocated, cat) /\ isLocated(event)
                      THEN Put(hasLocated, cat, TRUE)
                      ELSE hasLocated
         IN  scanLocated(next, Tail(evs), nCategories)

selectCategoriesWithTimeline(cats, shuffled) ==
    IF Len(cats) = 0 THEN cats
    ELSE LET hasLocated == scanLocated(EmptyObject, shuffled, Len(cats))
         IN  SelectSeq(cats, LAMBDA cat : HasOwn(hasLocated, cat.category))

(***************************************************************************)
(* createSelector: each selector remembers the state it was last called    *)
(* with, the values its input selectors last gave and the result it last   *)
(* returned, all compared by reference.                                    *)
(***************************************************************************)
NoRef == -1

Unused == [valid |-> FALSE, state |-> NoRef, args |-> <<>>, result |-> NoRef]

\* One call of a memoized selector.  args are the references its input
\* selectors give for this state, fresh the reference a recomputation would
\* return.
callSelector(memo, root, args, fresh) ==
    IF memo.valid /\ memo.state = root
    THEN [memo |-> memo, recomputed |-> FALSE]
    ELSE IF memo.valid /\ memo.args = args
         THEN [memo |-> [memo EXCEPT !.state = root], recomputed |-> FALSE]
         ELSE [memo |-> [valid |-> TRUE, state |-> root, args |-> args,
                         result |-> fresh],
               recomputed |-> TRUE]

\* getSources(state): state.domain.sources, or a new {} on every call
getSourcesRef(t, feat, fresh) == IF feat.USE_SOURCES THEN t["sources"] ELSE fresh

(***************************************************************************)
(* Inputs.                                                                 *)
(***************************************************************************)
Event(id, ts, cat, loc, lat) ==
    [id |-> id, timestamp |-> ts, category |-> cat, location |-> loc,
     latitude |-> lat, longitude |-> lat]

SeqsUpTo(S, n) == UNION {[1..k -> S] : k \in 0..n}

Selectors == {"selectEvents", "selectNarratives", "selectLocations",
              "selectDatetimes", "selectSelected",
              "selectCategoriesWithTimeline", "selectDimensions"}

Idle == [s \in Selectors |-> "idle"]

NoOutput == [s \in Selectors |-> <<>>]

AllFeatures == [USE_SOURCES |-> TRUE, ASSOCIATIVE_EVENTS_BY_TAG |-> TRUE]

MemoIdle ==
    /\ tree = <<>>
    /\ cache = <<>>
    /\ heap = [next |-> 0, updates |-> 0, changed |-> {}]
    /\ tick = <<>>

MemoUnchanged == UNCHANGED <<tree, cache, heap, tick>>

InputsUnchanged ==
    UNCHANGED <<events, categories, narrativesMeta, activeTags,
                activeCategories, timeRange, features>>

(***************************************************************************)
(* The event filter on its own.                                            *)
(***************************************************************************)
FilterEvents ==
    LET base == {Event(id, ts, cat, "A", "10") :
                    id \in {"0", "1"}, ts \in {"2020-01-01", "2020-03-01"},
                    cat \in {"c1", "c2"}}
    IN  base \cup {With(e, "tags", t) : e \in base, t \in {<<"x">>, <<"y", "x">>}}

InitFilter ==
    /\ events \in SeqsUpTo(FilterEvents, MaxEvents)
    /\ activeTags \in {<<>>, <<"x">>, <<"y">>}
    /\ activeCategories \in {<<>>, <<"c1">>}
    /\ timeRange \in {<<1, 3>>, <<2, 3>>}
    /\ categories = <<>>
    /\ narrativesMeta = <<>>
    /\ features = AllFeatures
    /\ out = NoOutput
    /\ ret = Idle
    /\ MemoIdle

EvalSelectEvents ==
    /\ ret["selectEvents"] = "idle"
    /\ out' = [out EXCEPT !["selectEvents"] =
                 selectEvents(events, activeTags, activeCategories, timeRange)]
    /\ ret' = [ret EXCEPT !["selectEvents"] = "returned"]
    /\ InputsUnchanged
    /\ MemoUnchanged

NextFilter == EvalSelectEvents

SpecFilter == InitFilter /\ [][NextFilter]_vars

(***************************************************************************)
(* C1                                                                      *)
(***************************************************************************)
\* The three criteria of the event filter, as the specification words them.
InTimeRange(e) == isTimeRangedIn(e, timeRange)

TagsOf(e) == IF "tags" \in DOMAIN e THEN Range(e.tags) ELSE {}

Admitted(e) ==
    /\ InTimeRange(e)
    /\ (Range(activeTags) = {} \/ TagsOf(e) \cap Range(activeTags) # {})
    /\ (Range(activeCategories) = {} \/ e.category \in Range(activeCategories))

\* e is in the filter's output under its id
Appears(e) ==
    /\ HasOwn(out["selectEvents"], e.id)
    /\ out["selectEvents"].val[e.id] = e

\* C1 (as claimed): an event of the input is in the output of selectEvents
\* under its id exactly when it meets the time, tag and category criteria,
\* also when it has no tags field and when two events share an id.
C1_FilterIff ==
    ret["selectEvents"] = "returned" =>
        \A i \in DOMAIN events : Appears(events[i]) <=> Admitted(events[i])

\* The last admitted event carrying its id
IsLastAdmitted(j) ==
    /\ Admitted(events[j])
    /\ ~\E k \in DOMAIN events :
          k > j /\ events[k].id = events[j].id /\ Admitted(events[k])

\* C1 (amended): the entry under an id is the last admitted event with that
\* id; an event is in the output exactly when it is admitted and is equal to
\* the last admitted event carrying its id.
C1_FilterIffLastWins ==
    ret["selectEvents"] = "returned" =>
        \A i \in DOMAIN events :
            Appears(events[i]) <=>
                \E j \in DOMAIN events :
                    IsLastAdmitted(j) /\ events[j] = events[i]

\* Two admitted events share an id and differ, the first has no tags field,
\* and the second is the one in the output.
C1_Witness ==
    /\ ret["selectEvents"] = "returned"
    /\ \E i, j \in DOMAIN events :
          /\ i < j
          /\ events[i].id = events[j].id
          /\ events[i] # events[j]
          /\ "tags" \notin DOMAIN events[i]
          /\ Admitted(events[i]) /\ Admitted(events[j])
          /\ Appears(events[j]) /\ ~Appears(events[i])


(***************************************************************************)
(* The event filter feeding the location grouper.                          *)
(***************************************************************************)
EvalSelectLocations ==
    /\ ret["selectEvents"] = "returned"
    /\ ret["selectLocations"] = "idle"
    /\ out' = [out EXCEPT !["selectLocations"] =
                 selectLocations(out["selectEvents"])]
    /\ ret' = [ret EXCEPT !["selectLocations"] = "returned"]
    /\ InputsUnchanged
    /\ MemoUnchanged

LocationEvents ==
    {Event(id, "2020-02-01", cat, loc, lat) :
        id \in {"0", "1", "a"}, cat \in {"c1", "c2"},
        loc \in {"A", "B", "1"}, lat \in {"10", "20"}}

InitLocations ==
    /\ events \in SeqsUpTo(LocationEvents, MaxGrouped)
    /\ activeTags = <<>>
    /\ activeCategories \in {<<>>, <<"c1">>}
    /\ timeRange = <<1, 3>>
    /\ categories = <<>>
    /\ narrativesMeta = <<>>
    /\ features = AllFeatures
    /\ out = NoOutput
    /\ ret = Idle
    /\ MemoIdle

NextLocations == EvalSelectEvents \/ EvalSelectLocations

SpecLocations == InitLocations /\ [][NextLocations]_vars

(***************************************************************************)
(* C5                                                                      *)
(***************************************************************************)
RECURSIVE SumLen(_, _)
SumLen(groups, n) ==
    IF n = 0 THEN 0 ELSE Len(groups[n].events) + SumLen(groups, n - 1)

FilteredEvents == {out["selectEvents"].val[k] : k \in Range(out["selectEvents"].keys)}

\* C5: every event of the filter's output is in the events list of exactly
\* one location group, and the groups' lists together are as long as the
\* filter's output is large, whatever the type of the ids.
C5_GroupsPartitionFiltered ==
    ret["selectLocations"] = "returned" =>
        LET groups == out["selectLocations"]
        IN  /\ \A e \in FilteredEvents :
                   Cardinality({g \in DOMAIN groups : Includes(groups[g].events, e)}) = 1
            /\ SumLen(groups, Len(groups)) = Cardinality(FilteredEvents)

(***************************************************************************)
(* C10                                                                     *)
(***************************************************************************)
DistinctIds ==
    \A i, j \in DOMAIN events : events[i].id = events[j].id => i = j

\* the filtered events at a location, by their places in the event collection
PlacesAt(loc) ==
    {i \in DOMAIN events : Appears(events[i]) /\ events[i].location = loc}

FirstAt(loc) == CHOOSE i \in PlacesAt(loc) : \A j \in PlacesAt(loc) : i <= j

PlaceOf(e) == CHOOSE i \in DOMAIN events : events[i] = e

\* C10: groups come in the order in which their locations first appear among
\* the events, a group's events keep their order of encounter, and a group's
\* label and coordinates are those of the first event at its location.
\* Stated for collections whose ids are distinct.
C10_GroupsInFirstAppearanceOrder ==
    (ret["selectLocations"] = "returned" /\ DistinctIds) =>
        LET groups == out["selectLocations"]
        IN  /\ \A p, q \in DOMAIN groups :
                   p < q => FirstAt(groups[p].label) < FirstAt(groups[q].label)
            /\ \A p \in DOMAIN groups : \A a, b \in DOMAIN groups[p].events :
                   a < b => PlaceOf(groups[p].events[a]) < PlaceOf(groups[p].events[b])
            /\ \A p \in DOMAIN groups :
                   LET first == events[FirstAt(groups[p].label)]
                   IN  /\ groups[p].latitude = first.latitude
                       /\ groups[p].longitude = first.longitude


(***************************************************************************)
(* The event filter feeding the datetime grouper.                          *)
(***************************************************************************)
EvalSelectDatetimes ==
    /\ ret["selectEvents"] = "returned"
    /\ ret["selectDatetimes"] = "idle"
    /\ IF datetimesThrows(out["selectEvents"], features.ASSOCIATIVE_EVENTS_BY_TAG)
       THEN /\ ret' = [ret EXCEPT !["selectDatetimes"] = "threw"]
            /\ out' = out
       ELSE /\ ret' = [ret EXCEPT !["selectDatetimes"] = "returned"]
            /\ out' = [out EXCEPT !["selectDatetimes"] =
                         selectDatetimes(out["selectEvents"],
                                         features.ASSOCIATIVE_EVENTS_BY_TAG)]
    /\ InputsUnchanged
    /\ MemoUnchanged

DatetimeEvents ==
    {With(Event(id, ts, "c1", "A", "10"), "tags", t) :
        id \in {"0", "1", "2"}, ts \in Timestamps,
        t \in {<<>>, <<"a">>, <<"1", "a">>, <<"0">>}}

InitDatetimes ==
    /\ events \in SeqsUpTo(DatetimeEvents, MaxGrouped)
    /\ activeTags \in {<<>>, <<"a">>}
    /\ activeCategories = <<>>
    /\ timeRange = <<1, 3>>
    /\ categories = <<>>
    /\ narrativesMeta = <<>>
    /\ features \in {[AllFeatures EXCEPT !.ASSOCIATIVE_EVENTS_BY_TAG = b] : b \in BOOLEAN}
    /\ out = NoOutput
    /\ ret = Idle
    /\ MemoIdle

NextDatetimes == EvalSelectEvents \/ EvalSelectDatetimes

SpecDatetimes == InitDatetimes /\ [][NextDatetimes]_vars

(***************************************************************************)
(* C6                                                                      *)
(***************************************************************************)
\* C6: the datetime groups are listed by ascending timestamp, whatever the
\* order of the events.
C6_DatetimesAscending ==
    ret["selectDatetimes"] = "returned" =>
        \A p, q \in DOMAIN out["selectDatetimes"] :
            p < q => ParseDate[out["selectDatetimes"][p].timestamp]
                        <= ParseDate[out["selectDatetimes"][q].timestamp]

(***************************************************************************)
(* C7                                                                      *)
(***************************************************************************)
\* the filtered events in the order the grouper visits them
Visited == ArrayElements(out["selectEvents"])

FirstTag(e) == IF Len(e.tags) >= 1 THEN e.tags[1] ELSE Null

\* the place at which the grouper first meets project pj
Discovered(pj) ==
    CHOOSE i \in DOMAIN Visited :
        FirstTag(Visited[i]) = pj /\ \A j \in 1..(i - 1) : FirstTag(Visited[j]) # pj

ProjectsSeen == {FirstTag(Visited[i]) : i \in DOMAIN Visited} \ {Null}

\* project pj's interval holds timestamp t
ActiveAt(pj, t) ==
    /\ \E i \in DOMAIN Visited :
          FirstTag(Visited[i]) = pj /\ DateLeq(Visited[i].timestamp, t)
    /\ \E i \in DOMAIN Visited :
          FirstTag(Visited[i]) = pj /\ DateLeq(t, Visited[i].timestamp)

\* the index of pj among the projects active at t, in discovery order
LaneOf(pj, t) ==
    Cardinality({k \in ProjectsSeen :
                    ActiveAt(k, t) /\ Discovered(k) < Discovered(pj)})

\* C7: with ASSOCIATIVE_EVENTS_BY_TAG on, an event whose project is active at
\* its timestamp has projectOffset = (its project's index among the active
\* projects in discovery order) * (2 * eventDotR + 5), so of two events at
\* one timestamp the earlier discovered project has the smaller offset;
\* an event with no project, and every event when the flag is off, has
\* projectOffset = -(2 * eventDotR + 5).
C7_LaneOffsets ==
    ret["selectDatetimes"] = "returned" =>
        \A p \in DOMAIN out["selectDatetimes"] :
            LET group == out["selectDatetimes"][p]
            IN  /\ \A a \in DOMAIN group.events :
                      LET ev == group.events[a]
                      IN  ev.projectOffset =
                            IF /\ features.ASSOCIATIVE_EVENTS_BY_TAG
                               /\ FirstTag(ev) # Null
                               /\ ActiveAt(FirstTag(ev), group.timestamp)
                            THEN LaneOf(FirstTag(ev), group.timestamp) * (2 * eventDotR + 5)
                            ELSE -(2 * eventDotR + 5)
                /\ features.ASSOCIATIVE_EVENTS_BY_TAG =>
                      \A a, b \in DOMAIN group.events :
                          LET A == FirstTag(group.events[a])
                              B == FirstTag(group.events[b])
                          IN  (A # Null /\ B # Null /\ A # B
                                 /\ Discovered(A) < Discovered(B))
                              => group.events[a].projectOffset
                                    < group.events[b].projectOffset


(***************************************************************************)
(* The narrative assembler.                                                *)
(***************************************************************************)
EvalSelectNarratives ==
    /\ ret["selectNarratives"] = "idle"
    /\ IF narrativesThrows(events)
       THEN /\ ret' = [ret EXCEPT !["selectNarratives"] = "threw"]
            /\ out' = out
       ELSE /\ ret' = [ret EXCEPT !["selectNarratives"] = "returned"]
            /\ out' = [out EXCEPT !["selectNarratives"] =
                         selectNarratives(events, narrativesMeta, getSources(features))]
    /\ InputsUnchanged
    /\ MemoUnchanged

Meta(id) == [id |-> id, title |-> "T"]

NarrativeEvents ==
    {With(With(Event(id, ts, "c1", "A", "10"), "sources", <<"s1">>), "narratives", n) :
        id \in {"0", "1"}, ts \in Timestamps,
        n \in {<<>>, <<"n1">>, <<"n2", "n1">>}}

InitNarratives ==
    /\ events \in SeqsUpTo(NarrativeEvents, MaxSteps)
    /\ narrativesMeta \in {<<Meta("n3"), Meta("n1")>>, <<Meta("n1"), Meta("n2")>>}
    /\ features = AllFeatures
    /\ activeTags = <<>>
    /\ activeCategories = <<>>
    /\ timeRange = <<1, 3>>
    /\ categories = <<>>
    /\ out = NoOutput
    /\ ret = Idle
    /\ MemoIdle

NextNarratives == EvalSelectNarratives

SpecNarratives == InitNarratives /\ [][NextNarratives]_vars

(***************************************************************************)
(* C3                                                                      *)
(***************************************************************************)
Assembled == out["selectNarratives"]

MetaIds == {narrativesMeta[m].id : m \in DOMAIN narrativesMeta}

NarrativeIds == UNION {Range(events[i].narratives) : i \in DOMAIN events} \cup MetaIds

\* the step an event becomes
StepOf(e) == insetSourceFrom(getSources(features), e)

InStepsOf(e, id) ==
    \E p \in DOMAIN Assembled :
        Assembled[p].id = id /\ Includes(Assembled[p].steps, StepOf(e))

EncounteredAt(id, t) ==
    LET members == SelectSeq(events, LAMBDA e : e.timestamp = t
                                                /\ id \in Range(e.narratives))
    IN  [i \in DOMAIN members |-> StepOf(members[i])]

\* C4: in every narrative of the output the steps are in ascending order of
\* timestamp, and steps of equal timestamp are in the order in which the
\* event collection holds them.
C4_StepsAscendingStable ==
    ret["selectNarratives"] = "returned" =>
        \A p \in DOMAIN Assembled :
            LET steps == Assembled[p].steps
            IN  /\ \A i \in 1..(Len(steps) - 1) :
                       ParseDate[steps[i].timestamp] <= ParseDate[steps[i + 1].timestamp]
                /\ \A t \in Timestamps :
                       SelectSeq(steps, LAMBDA st : st.timestamp = t)
                           = EncounteredAt(Assembled[p].id, t)

\* A narrative whose events arrive latest first, two of them at one
\* timestamp, comes out sorted.
C4_Witness ==
    /\ ret["selectNarratives"] = "returned"
    /\ Len(events) = 3
    /\ \A i \in DOMAIN events : "n1" \in Range(events[i].narratives)
    /\ ParseDate[events[1].timestamp] > ParseDate[events[3].timestamp]
    /\ events[1].timestamp = events[2].timestamp
    /\ events[1] # events[2]
    /\ \E p \in DOMAIN Assembled :
          /\ Assembled[p].id = "n1"
          /\ Assembled[p].steps = <<StepOf(events[3]), StepOf(events[1]), StepOf(events[2])>>


(***************************************************************************)
(* Events that lack optional fields, through the three derivations that    *)
(* read tags and narratives.                                               *)
(***************************************************************************)
OptionalEvents ==
    LET base == {Event(id, "2020-02-01", "c1", "A", "10") : id \in {"0", "1"}}
        tagged == base \cup {With(e, "tags", <<"a">>) : e \in base}
    IN  tagged \cup {With(e, "narratives", n) : e \in tagged, n \in {<<>>, <<"n1">>}}

InitOptional ==
    /\ events \in SeqsUpTo(OptionalEvents, MaxEvents)
    /\ narrativesMeta = <<Meta("n1")>>
    /\ features \in [{"USE_SOURCES", "ASSOCIATIVE_EVENTS_BY_TAG"} -> BOOLEAN]
    /\ activeTags \in {<<>>, <<"a">>}
    /\ activeCategories = <<>>
    /\ timeRange = <<1, 3>>
    /\ categories = <<>>
    /\ out = NoOutput
    /\ ret = Idle
    /\ MemoIdle

NextOptional == EvalSelectEvents \/ EvalSelectNarratives \/ EvalSelectDatetimes

SpecOptional == InitOptional /\ [][NextOptional]_vars

(***************************************************************************)
(* C9                                                                      *)
(***************************************************************************)
\* C9: no derivation throws on an event that has no tags field or no
\* narratives field; selectEvents, selectNarratives and selectDatetimes each
\* complete and return a result.
C9_NoDerivationThrows ==
    \A s \in {"selectEvents", "selectNarratives", "selectDatetimes"} :
        ret[s] # "threw"

(***************************************************************************)
(* The category filter, under every order the shuffle may give.            *)
(***************************************************************************)
EvalSelectCategoriesWithTimeline ==
    /\ ret["selectCategoriesWithTimeline"] = "idle"
    /\ \E shuffled \in Shuffles(events) :
          out' = [out EXCEPT !["selectCategoriesWithTimeline"] =
                    selectCategoriesWithTimeline(categories, shuffled)]
    /\ ret' = [ret EXCEPT !["selectCategoriesWithTimeline"] = "returned"]
    /\ InputsUnchanged
    /\ MemoUnchanged

CategoryEvents ==
    LET bare == {[id |-> "0", timestamp |-> "2020-02-01", category |-> cat,
                  location |-> "A"] : cat \in {"c1", "c2", "other"}}
    IN  bare \cup {With(e, "latitude", "10") : e \in bare}
             \cup {With(With(e, "latitude", "10"), "longitude", "20") : e \in bare}

Category(c) == [category |-> c]

InitCategories ==
    /\ events \in SeqsUpTo(CategoryEvents, MaxGrouped)
    /\ categories \in {<<>>, <<Category("c1")>>, <<Category("c1"), Category("c2")>>,
                        <<Category("c2"), Category("c1")>>}
    /\ narrativesMeta = <<>>
    /\ features = AllFeatures
    /\ activeTags = <<>>
    /\ activeCategories = <<>>
    /\ timeRange = <<1, 3>>
    /\ out = NoOutput
    /\ ret = Idle
    /\ MemoIdle

NextCategories == EvalSelectCategoriesWithTimeline

SpecCategories == InitCategories /\ [][NextCategories]_vars

(***************************************************************************)
(* C8                                                                      *)
(***************************************************************************)
HasLocatedEvent(c) ==
    \E i \in DOMAIN events :
        /\ events[i].category = c
        /\ "latitude" \in DOMAIN events[i]
        /\ "longitude" \in DOMAIN events[i]

\* C8: whatever order the scan visits the events in, the result is exactly
\* the categories with at least one event that has both a latitude and a
\* longitude, in the order of the category collection, also when some
\* events belong to categories outside the collection.
C8_LocatedCategories ==
    ret["selectCategoriesWithTimeline"] = "returned" =>
        out["selectCategoriesWithTimeline"]
            = SelectSeq(categories, LAMBDA cat : HasLocatedEvent(cat.category))


(***************************************************************************)
(* Updates of the state tree and renders that evaluate every selector.     *)
(* A reference is a number; an update stores fresh references, a           *)
(* recomputation returns one.                                              *)
(***************************************************************************)
Fields == {"events", "categories", "narratives", "sources", "selected",
           "tags", "filterCategories", "range", "dimensions"}

\* The selectors in the order a render calls them: a selector follows the
\* selectors it reads.
RenderOrder == <<"selectEvents", "selectNarratives", "selectLocations",
                 "selectDatetimes", "selectSelected",
                 "selectCategoriesWithTimeline", "selectDimensions">>

\* What the input selectors of selector s give, c being the memos as the
\* render has left them so far.
inputsOf(s, t, c, feat, fresh) ==
    CASE s = "selectEvents" ->
            <<t["events"], t["tags"], t["filterCategories"], t["range"]>>
      [] s = "selectNarratives" ->
            <<t["events"], t["narratives"], getSourcesRef(t, feat, fresh)>>
      [] s = "selectLocations" -> <<c["selectEvents"].result>>
      [] s = "selectDatetimes" -> <<c["selectEvents"].result>>
      [] s = "selectSelected" -> <<t["selected"], getSourcesRef(t, feat, fresh)>>
      [] s = "selectCategoriesWithTimeline" -> <<t["categories"], t["events"]>>
      [] s = "selectDimensions" -> <<t["dimensions"]>>

\* getSources allocates a new {} when selector s calls it with USE_SOURCES off
allocatesSources(s, feat) ==
    s \in {"selectNarratives", "selectSelected"} /\ ~feat.USE_SOURCES

\* Calls the selectors RenderOrder[n..].  A selector called with the state it
\* was last called with does not call its input selectors.
RECURSIVE renderFrom(_, _, _, _, _, _)
renderFrom(n, t, c, feat, fresh, done) ==
    IF n > Len(RenderOrder) THEN [cache |-> c, recomputed |-> done, next |-> fresh]
    ELSE LET s     == RenderOrder[n]
             same  == c[s].valid /\ c[s].state = t["root"]
             taken == IF ~same /\ allocatesSources(s, feat) THEN 1 ELSE 0
             call  == callSelector(c[s], t["root"],
                                   inputsOf(s, t, c, feat, fresh), fresh + taken)
         IN  renderFrom(n + 1, t, [c EXCEPT ![s] = call.memo], feat,
                        fresh + taken + (IF call.recomputed THEN 1 ELSE 0),
                        IF call.recomputed THEN done \cup {s} ELSE done)

InitMemo ==
    /\ tree = [f \in Fields \cup {"root"} |-> 0]
    /\ cache = [s \in Selectors |-> Unused]
    /\ heap = [next |-> 1, updates |-> 0, changed |-> {}]
    /\ tick = [renders |-> 0, changed |-> {}, recomputed |-> {},
               returned |-> [s \in Selectors |-> NoRef],
               previous |-> [s \in Selectors |-> NoRef]]
    /\ features \in [{"USE_SOURCES", "ASSOCIATIVE_EVENTS_BY_TAG"} -> BOOLEAN]
    /\ events = <<>>
    /\ categories = <<>>
    /\ narrativesMeta = <<>>
    /\ activeTags = <<>>
    /\ activeCategories = <<>>
    /\ timeRange = <<1, 3>>
    /\ out = NoOutput
    /\ ret = Idle

\* A state update that replaces the value of one field (and with it the
\* objects on the path to the root).
Update ==
    /\ heap.updates < MaxUpdates
    /\ \E f \in Fields :
          /\ tree' = [tree EXCEPT ![f] = heap.next, !["root"] = heap.next + 1]
          /\ heap' = [next |-> heap.next + 2, updates |-> heap.updates + 1,
                      changed |-> heap.changed \cup {f}]
    /\ UNCHANGED <<cache, tick, out, ret>>
    /\ InputsUnchanged

\* The rendering layer evaluates every selector on the current state.
Render ==
    /\ LET r == renderFrom(1, tree, cache, features, heap.next, {})
       IN  /\ cache' = r.cache
           /\ heap' = [heap EXCEPT !.next = r.next, !.changed = {}]
           /\ tick' = [renders    |-> IF tick.renders = 0 THEN 1 ELSE 2,
                       changed    |-> heap.changed,
                       recomputed |-> r.recomputed,
                       returned   |-> [s \in Selectors |-> r.cache[s].result],
                       previous   |-> tick.returned]
    /\ UNCHANGED <<tree, out, ret>>
    /\ InputsUnchanged

NextMemo == Update \/ Render

SpecMemo == InitMemo /\ [][NextMemo]_vars

(***************************************************************************)
(* C2                                                                      *)
(***************************************************************************)
\* C2: under every setting of the flags, a render that follows an update of
\* app.filters.tags alone recomputes selectEvents, selectLocations and
\* selectDatetimes, and does not recompute selectNarratives, selectSelected,
\* selectCategoriesWithTimeline and selectDimensions, which return the very
\* reference they returned at the render before.
C2_TagsUpdateInvalidation ==
    (tick.renders = 2 /\ tick.changed = {"tags"}) =>
        /\ {"selectEvents", "selectLocations", "selectDatetimes"} \subseteq tick.recomputed
        /\ \A s \in {"selectNarratives", "selectSelected",
                       "selectCategoriesWithTimeline", "selectDimensions"} :
               /\ s \notin tick.recomputed
               /\ tick.returned[s] = tick.previous[s]

\* The same with USE_SOURCES on.
C2_HoldsWithSources ==
    features.USE_SOURCES => C2_TagsUpdateInvalidation

=============================================================================
